---- MODULE Spec2Model ----
(***************************************************************************)
(* Cycling Power Optimizer (src/app.js): the segmenter, the physics       *)
(* engine, the three-pass power allocator and the UI handlers that call   *)
(* them.                                                                   *)
(*                                                                         *)
(* JavaScript Numbers are modelled as decimal fixed-point integers with   *)
(* four fractional digits: the Number x is the integer x * Scale.  Every  *)
(* product and quotient is rounded toward zero to that grid.  Latitudes   *)
(* are whole micro-degrees.  All intermediate values stay below 2^31.     *)
(***************************************************************************)
EXTENDS Integers, Sequences, FiniteSets, TLC

\* ------------------------------------------------------------------------
\* Fixed-point arithmetic standing for the JavaScript Number operations
\* ------------------------------------------------------------------------

Hundred == 10 * 10

Scale == Hundred * Hundred

\* The Number x/y as a fixed-point value (x, y small integers).
Num(x, y) == (x * Scale) \div y

Abs(x) == IF x < 0 THEN -x ELSE x

\* The element of a one-element set.  { F(v) : v \in {e} } computes e once and
\* names its value v, as a const declaration does.
The(S) == CHOOSE x \in S : TRUE

Sgn(x) == IF x < 0 THEN -1 ELSE 1

Max(a, b) == IF a >= b THEN a ELSE b

Min(a, b) == IF a <= b THEN a ELSE b

\* a * b
FMul(a, b) ==
    LET x == Abs(a)
        y == Abs(b)
        qa == x \div Scale
        ra == x % Scale
        qb == y \div Scale
        rb == y % Scale
    IN  Sgn(a) * Sgn(b) * (qa * y + ra * qb + (ra * rb) \div Scale)

\* a / b for b # 0 (the callers test the JavaScript cases 0/0 and x/0)
\* A quotient beyond the representable range saturates at Huge.
Huge == 200000 * Scale

FDivPos(x, y) ==
    LET q == x \div y
        r == x % y
        q1 == (r * Hundred) \div y
        r1 == (r * Hundred) % y
    IN  IF q >= 200000 THEN Huge
        ELSE q * Scale + q1 * Hundred + (r1 * Hundred) \div y

FDiv(a, b) ==
    LET x == Abs(a)
        y == Abs(b)
    IN  Sgn(a) * Sgn(b) *
        (IF y < 20000000 THEN FDivPos(x, y)
                         ELSE FDivPos(x \div Hundred, y \div Hundred))

\* floor of the square root of a natural number (Heron's iteration from above)
RECURSIVE SqrtIter(_, _)
SqrtIter(n, x) ==
    LET y == (x + n \div x) \div 2
    IN  IF y >= x THEN x ELSE SqrtIter(n, y)

ISqrt(n) == IF n = 0 THEN 0 ELSE SqrtIter(n, 46340)

\* Math.sqrt on fixed-point values: Heron's iteration on the grid
RECURSIVE FSqrtIter(_, _, _)
FSqrtIter(x, y, k) ==
    LET z == (y + FDiv(x, y)) \div 2
    IN  IF k = 0 \/ z = y THEN y ELSE FSqrtIter(x, z, k - 1)

FSqrt(x) == IF x <= 0 THEN 0 ELSE FSqrtIter(x, Max(1, ISqrt(x) * Hundred), 40)

\* Math.pow(x, 1/3) on fixed-point values: bisection for the largest y with y^3 <= x
RECURSIVE CbrtSearch(_, _, _)
CbrtSearch(x, lo, hi) ==
    IF hi - lo <= 1 THEN lo
    ELSE LET mid == (lo + hi) \div 2
         IN  IF FMul(FMul(mid, mid), mid) <= x
             THEN CbrtSearch(x, mid, hi)
             ELSE CbrtSearch(x, lo, mid)

FCbrt(x) == CbrtSearch(x, 0, 59 * Scale)

\* The Number NaN (0/0 and everything computed from it).
NaN == 0 - 2147483647

\* a / b where b may be 0: 0/0 is NaN, x/0 is Infinity (saturated)
JsDiv(a, b) ==
    IF a = NaN \/ b = NaN THEN NaN
    ELSE IF b = 0 THEN (IF a = 0 THEN NaN ELSE Sgn(a) * Huge)
    ELSE FDiv(a, b)

JsMul(a, b) == IF a = NaN \/ b = NaN THEN NaN ELSE FMul(a, b)

\* Math.cos of a whole number of degrees (multiples of 45), and Math.sin
CosDeg(d) ==
    LET m == d % 360
    IN  CASE m = 0 -> Scale
          [] m = 45 -> 7071
          [] m = 90 -> 0
          [] m = 135 -> -7071
          [] m = 180 -> -Scale
          [] m = 225 -> -7071
          [] m = 270 -> 0
          [] m = 315 -> 7071

SinDeg(d) == CosDeg(d - 90)

\* ------------------------------------------------------------------------
\* Constants & Configuration
\* ------------------------------------------------------------------------

GRAVITY == Num(981, 100)

AIR_DENSITY == Num(1225, 1000)

EARTH_RADIUS == 6371000

DRIVETRAIN_LOSS == Num(3, 100)

MIN_POWER == Num(50, 1)

MAX_POWER_FACTOR == Num(120, 100)

SEGMENT_LENGTH == Num(100, 1)

\* ------------------------------------------------------------------------
\* GPX Parser Module.  A track point is [lat, lon, ele]: lat and lon in whole
\* micro-degrees, ele in metres.  The tracks considered run along a meridian.
\* ------------------------------------------------------------------------

\* Math.atan2(y, x) * 180 / Math.PI on the axes
Atan2Deg(y, x) ==
    CASE y = 0 /\ x >= 0 -> 0
      [] y = 0 /\ x < 0 -> 180
      [] y > 0 /\ x = 0 -> 90
      [] y < 0 /\ x = 0 -> -90

\* Along a meridian (dLon = 0) a = sin^2(dLat/2) and c = |dLat| in radians;
\* pi/180 is taken as 71/4068.
haversineDistance(lat1, lon1, lat2, lon2) ==
    CASE lon1 = lon2 ->
        (Abs(lat2 - lat1) * ((EARTH_RADIUS * 71) \div 4068)) \div Hundred

\* Along a meridian y = 0 and x = sin(lat2 - lat1).
calculateBearing(lat1, lon1, lat2, lon2) ==
    CASE lon1 = lon2 -> (Atan2Deg(0, lat2 - lat1) + 360) % 360

RECURSIVE processRouteFrom(_, _, _, _)
processRouteFrom(points, i, segs, cumulativeDistance) ==
    IF i > Len(points) THEN segs
    ELSE
    LET p1 == points[i - 1]
        p2 == points[i]
        distance == haversineDistance(p1.lat, p1.lon, p2.lat, p2.lon)
        elevationChange == p2.ele - p1.ele
        gradient == IF distance > 0 THEN FDiv(elevationChange, distance) ELSE 0
        bearing == calculateBearing(p1.lat, p1.lon, p2.lat, p2.lon)
    IN  IF distance < Num(1, 1)
        THEN processRouteFrom(points, i + 1, segs, cumulativeDistance)
        ELSE The({ processRouteFrom(points, i + 1, pushed, cd) :
                   pushed \in {Append(segs,
                       [startLat |-> p1.lat, startLon |-> p1.lon,
                        endLat |-> p2.lat, endLon |-> p2.lon,
                        distance |-> distance,
                        cumulativeDistance |-> cumulativeDistance + distance,
                        elevation |-> p2.ele,
                        gradient |-> gradient,
                        bearing |-> bearing])},
                   cd \in {cumulativeDistance + distance} })

processRoute(points) == processRouteFrom(points, 2, <<>>, 0)

\* The accumulator of smoothSegments before the first segment
initialAccumulated(segs) ==
    [distance |-> 0,
     elevationStart |-> IF Len(segs) > 0 THEN segs[1].elevation ELSE 0,
     elevationSum |-> 0,
     bearingX |-> 0,
     bearingY |-> 0,
     startLat |-> IF Len(segs) > 0 THEN segs[1].startLat ELSE 0,
     startLon |-> IF Len(segs) > 0 THEN segs[1].startLon ELSE 0,
     endLat |-> 0,
     endLon |-> 0,
     cumulativeDistance |-> 0]

\* The forEach callback of smoothSegments up to its test
accumulateWithoutCumulative(accumulated, seg) ==
    [accumulated EXCEPT
        !.distance = @ + seg.distance,
        !.elevationSum = @ + FMul(seg.elevation, seg.distance),
        !.bearingX = @ + FMul(CosDeg(seg.bearing), seg.distance),
        !.bearingY = @ + FMul(SinDeg(seg.bearing), seg.distance),
        !.endLat = seg.endLat,
        !.endLon = seg.endLon]

accumulate(accumulated, seg) ==
    [accumulated EXCEPT
        !.distance = @ + seg.distance,
        !.elevationSum = @ + FMul(seg.elevation, seg.distance),
        !.bearingX = @ + FMul(CosDeg(seg.bearing), seg.distance),
        !.bearingY = @ + FMul(SinDeg(seg.bearing), seg.distance),
        !.endLat = seg.endLat,
        !.endLon = seg.endLon,
        !.cumulativeDistance = seg.cumulativeDistance]

\* The coalesced segment pushed for the accumulator acc
flushSegment(acc) ==
    LET avgElevation == FDiv(acc.elevationSum, acc.distance)
        bearing == (Atan2Deg(acc.bearingY, acc.bearingX) + 360) % 360
        gradient == FDiv(avgElevation - acc.elevationStart, acc.distance)
    IN  [startLat |-> acc.startLat, startLon |-> acc.startLon,
         endLat |-> acc.endLat, endLon |-> acc.endLon,
         distance |-> acc.distance,
         cumulativeDistance |-> acc.cumulativeDistance,
         elevation |-> avgElevation,
         gradient |-> gradient,
         bearing |-> bearing]

\* The accumulator after the push
resetAccumulated(acc) ==
    [distance |-> 0,
     elevationStart |-> FDiv(acc.elevationSum, acc.distance),
     elevationSum |-> 0,
     bearingX |-> 0,
     bearingY |-> 0,
     startLat |-> acc.endLat,
     startLon |-> acc.endLon,
     endLat |-> 0,
     endLon |-> 0,
     cumulativeDistance |-> acc.cumulativeDistance]

\* The forEach of smoothSegments flushing only at the target length: the
\* remainder after the last flush is not pushed
RECURSIVE smoothFromDroppingRemainder(_, _, _, _, _)
smoothFromDroppingRemainder(segs, i, smoothed, accumulated, targetLength) ==
    IF i > Len(segs) THEN smoothed
    ELSE The({
        IF acc.distance >= targetLength
        THEN The({ smoothFromDroppingRemainder(segs, i + 1, pushed, reset, targetLength) :
                   pushed \in {Append(smoothed, flushSegment(acc))},
                   reset \in {resetAccumulated(acc)} })
        ELSE smoothFromDroppingRemainder(segs, i + 1, smoothed, acc, targetLength)
        : acc \in {accumulate(accumulated, segs[i])} })

RECURSIVE smoothFrom(_, _, _, _, _)
smoothFrom(segs, i, smoothed, accumulated, targetLength) ==
    IF i > Len(segs) THEN smoothed
    ELSE The({
        IF acc.distance >= targetLength \/ i = Len(segs)
        THEN The({ smoothFrom(segs, i + 1, pushed, reset, targetLength) :
                   pushed \in {Append(smoothed, flushSegment(acc))},
                   reset \in {resetAccumulated(acc)} })
        ELSE smoothFrom(segs, i + 1, smoothed, acc, targetLength)
        : acc \in {accumulate(accumulated, segs[i])} })

\* The forEach started at the second raw segment
smoothSegmentsFromSecond(segs, targetLength) ==
    smoothFrom(segs, 2, <<>>, initialAccumulated(segs), targetLength)

smoothSegments(segs, targetLength) ==
    smoothFrom(segs, 1, <<>>, initialAccumulated(segs), targetLength)

\* ------------------------------------------------------------------------
\* Physics Engine Module
\* ------------------------------------------------------------------------

\* P_total of powerRequired, before the MIN_POWER floor
powerTotal(speed, gradient, headwind, params) ==
    LET airSpeed == speed + headwind
        P_aero == FMul(FMul(FMul(FMul(Num(1, 2), AIR_DENSITY), params.cda),
                            FMul(airSpeed, airSpeed)), speed)
        P_gravity == FMul(FMul(FMul(params.totalMass, GRAVITY), gradient), speed)
        cosGradient == (Scale * Scale) \div ISqrt(Scale * Scale + gradient * gradient)
        P_rolling == FMul(FMul(FMul(FMul(params.crr, params.totalMass), GRAVITY),
                               cosGradient), speed)
    IN  FDiv(P_aero + P_gravity + P_rolling, Scale - DRIVETRAIN_LOSS)

powerRequired(speed, gradient, headwind, params) ==
    Max(MIN_POWER, powerTotal(speed, gradient, headwind, params))

\* The Newton-Raphson loop of speedAtPower from iteration i on; the result is
\* <<speed, iterations started>>.
RECURSIVE newtonLoop(_, _, _, _, _, _)
newtonLoop(speed, i, power, gradient, headwind, params) ==
    IF i >= 20 THEN <<speed, i>>
    ELSE The({
        LET error == currentPower - power
            dPower == upPower - currentPower
            derivative == FDiv(dPower, Num(1, 10))
        IN  IF Abs(error) < Num(1, 10) THEN <<speed, i + 1>>
            ELSE IF Abs(derivative) < Num(1, 1000) THEN <<speed, i + 1>>
            ELSE The({ newtonLoop(clamped, i + 1, power, gradient, headwind, params) :
                       clamped \in {Max(Num(1, 1),
                                        Min(speed - FDiv(error, derivative), Num(30, 1)))} })
        : currentPower \in {powerRequired(speed, gradient, headwind, params)},
          upPower \in {powerRequired(speed + Num(1, 10), gradient, headwind, params)} })

initialGuess(power, params) ==
    FCbrt(FDiv(power, FMul(FMul(Num(1, 2), AIR_DENSITY), params.cda)))

\* <<the speed returned, the loop iterations started>>
speedAtPowerRun(power, gradient, headwind, params) ==
    The({ newtonLoop(speed, 0, p, g, h, params) :
          speed \in {initialGuess(power, params)},
          p \in {power}, g \in {gradient}, h \in {headwind} })

speedAtPower(power, gradient, headwind, params) ==
    speedAtPowerRun(power, gradient, headwind, params)[1]

calculateHeadwind(windSpeed, windDirection, bearing) ==
    LET windTo == (windDirection + 180) % 360
        angle == windTo - bearing
    IN  FMul(-windSpeed, CosDeg(angle))

\* ------------------------------------------------------------------------
\* Power Optimization Module.  Objects live in a heap (reference -> record);
\* an array is a sequence of references.
\* ------------------------------------------------------------------------

\* obj.f = v
SetField(obj, f, v) == (f :> v) @@ obj

\* heap with the object at ref created or replaced
Put(heap, ref, obj) == (ref :> obj) @@ heap

\* basePower without the target intensity
basePowerIsFtp(params) == params.ftp

basePowerOf(params) ==
    FMul(params.ftp, FDiv(params.targetIntensity, Num(100, 1)))

maxPowerOf(params) == FMul(params.ftp, MAX_POWER_FACTOR)

minPowerOf(params) == FMul(basePowerOf(params), Num(1, 2))

aggressivenessOf(params) ==
    Max(0, FDiv(params.targetIntensity - Num(65, 1), Num(35, 1)))

\* The gradient adjustment with the ramp toward ftp starting at 0% instead of
\* 0.5%
gradientTargetRampFromZero(gradient, params) ==
    LET ftp == params.ftp
        basePower == basePowerOf(params)
        aggressiveness == aggressivenessOf(params)
        gradientPercent == FMul(gradient, Num(100, 1))
    IN  IF gradientPercent > Num(2, 1) THEN
            LET maxBoost == Num(10, 100) + FMul(aggressiveness, Num(20, 100))
                powerBoost == FMul(Min(FMul(gradientPercent - Num(2, 1), Num(10, 100)),
                                       maxBoost), aggressiveness)
            IN  Max(basePower, FMul(ftp, Scale + powerBoost))
        ELSE IF gradientPercent > 0 THEN
            basePower + FMul(FMul(FDiv(gradientPercent, Num(2, 1)), ftp - basePower),
                             aggressiveness)
        ELSE IF gradientPercent < -Num(2, 1) THEN
            FMul(basePower,
                 Scale - Min(FMul(Abs(gradientPercent), Num(12, 100)), Num(40, 100)))
        ELSE IF gradientPercent < 0 THEN
            FMul(basePower, Scale - FMul(Abs(gradientPercent), Num(5, 100)))
        ELSE basePower

\* The gradient adjustment of the first pass
gradientTarget(gradient, params) ==
    LET ftp == params.ftp
        basePower == basePowerOf(params)
        aggressiveness == aggressivenessOf(params)
        gradientPercent == FMul(gradient, Num(100, 1))
    IN  IF gradientPercent > Num(2, 1) THEN
            LET maxBoost == Num(10, 100) + FMul(aggressiveness, Num(20, 100))
                powerBoost == FMul(Min(FMul(gradientPercent - Num(2, 1), Num(10, 100)),
                                       maxBoost), aggressiveness)
                climbTarget == FMul(ftp, Scale + powerBoost)
            IN  Max(basePower, climbTarget)
        ELSE IF gradientPercent > Num(5, 10) THEN
            LET rampFactor == FDiv(gradientPercent - Num(5, 10), Num(15, 10))
            IN  basePower + FMul(FMul(rampFactor, ftp - basePower), aggressiveness)
        ELSE IF gradientPercent < -Num(2, 1) THEN
            LET powerReduction == Min(FMul(Abs(gradientPercent), Num(12, 100)), Num(40, 100))
            IN  FMul(basePower, Scale - powerReduction)
        ELSE IF gradientPercent < 0 THEN
            LET powerReduction == FMul(Abs(gradientPercent), Num(5, 100))
            IN  FMul(basePower, Scale - powerReduction)
        ELSE basePower

\* The wind adjustment of the first pass
windAdjusted(targetPower, headwind) ==
    IF headwind < 0 THEN
        LET windBoost == Min(FMul(Abs(headwind), Num(2, 100)), Num(10, 100))
        IN  FMul(targetPower, Scale + windBoost)
    ELSE IF headwind > 0 THEN
        LET windReduction == Min(FMul(headwind, Num(15, 1000)), Num(8, 100))
        IN  FMul(targetPower, Scale - windReduction)
    ELSE targetPower

\* The clamp without its upper limit
clampPowerNoMax(targetPower, params) == Max(minPowerOf(params), targetPower)

clampPower(targetPower, params) ==
    Max(minPowerOf(params), Min(maxPowerOf(params), targetPower))

segmentHeadwind(seg, params) ==
    calculateHeadwind(FDiv(params.windSpeed, Num(36, 10)), params.windDirection, seg.bearing)

\* targetPower at the end of one first-pass iteration
firstPassTarget(seg, params) ==
    clampPower(windAdjusted(gradientTarget(seg.gradient, params),
                            segmentHeadwind(seg, params)), params)

\* { ...seg, headwind: headwind, optimizedPower: targetPower }
Spread(seg, headwind, targetPower) ==
    ("headwind" :> headwind) @@ ("optimizedPower" :> targetPower) @@ seg

\* results.push(seg) without the spread: the input object itself
ResultRefAliased(i, n) == i

\* The reference of the i-th element of results: a new object for each of the
\* n input segments.
ResultRef(i, n) == n + i

RECURSIVE firstPass(_, _, _, _)
firstPass(heap, segRefs, i, params) ==
    IF i > Len(segRefs) THEN heap
    ELSE
    The({ firstPass(pushed, segRefs, i + 1, params) :
          pushed \in {LET seg == heap[segRefs[i]]
                      IN  Put(heap, ResultRef(i, Len(segRefs)),
                              Spread(seg, segmentHeadwind(seg, params),
                                     firstPassTarget(seg, params)))} })

physicsParams(params) ==
    [totalMass |-> params.totalMass, cda |-> params.cda, crr |-> params.crr]

\* The affordability test against an empty reserve instead of the 15% floor
cannotAffordBelowZero(wBalance, wCost, params) == wBalance - wCost < 0

\* Whether the second pass replaces the target of a segment by basePower
cannotAfford(wBalance, wCost, params) ==
    wBalance - wCost < FMul(params.wprime, Num(15, 100))

\* The second pass iteration that, after replacing the target by basePower,
\* goes on to the recovery branch with the replaced power
secondPassStepJudgedOnFinal(seg, wBalance, params) ==
    The({
    LET ftp == params.ftp
        overridden == /\ seg.optimizedPower > ftp
                      /\ cannotAfford(wBalance, FMul(seg.optimizedPower - ftp, segmentTime),
                                      params)
        power == IF overridden THEN basePowerOf(params) ELSE seg.optimizedPower
    IN  IF power > ftp THEN
            [seg |-> SetField(seg, "wBalance",
                              wBalance - FMul(power - ftp, segmentTime)),
             wBalance |-> wBalance - FMul(power - ftp, segmentTime)]
        ELSE
            LET recovered == Min(params.wprime,
                                 wBalance + FMul(FMul(ftp - power, segmentTime),
                                                 Num(30, 100)))
            IN  [seg |-> SetField(SetField(seg, "optimizedPower", power),
                                  "wBalance", recovered),
                 wBalance |-> recovered]
    : segmentTime \in {FDiv(seg.distance,
                            speedAtPower(seg.optimizedPower, seg.gradient, seg.headwind,
                                         physicsParams(params)))} })

\* One iteration of the second pass on object seg with the balance before it:
\* the object and the balance after it.
secondPassStep(seg, wBalance, params) ==
    The({
    LET ftp == params.ftp
    IN  IF seg.optimizedPower > ftp THEN
            LET wCost == FMul(seg.optimizedPower - ftp, segmentTime)
            IN  IF cannotAfford(wBalance, wCost, params)
                THEN [seg |-> SetField(SetField(seg, "optimizedPower", basePowerOf(params)),
                                       "wBalance", wBalance),
                      wBalance |-> wBalance]
                ELSE [seg |-> SetField(seg, "wBalance", wBalance - wCost),
                      wBalance |-> wBalance - wCost]
        ELSE
            LET wRecovery == FMul(FMul(ftp - seg.optimizedPower, segmentTime), Num(30, 100))
                recovered == Min(params.wprime, wBalance + wRecovery)
            IN  [seg |-> SetField(seg, "wBalance", recovered),
                 wBalance |-> recovered]
    : segmentTime \in {FDiv(seg.distance,
                            speedAtPower(seg.optimizedPower, seg.gradient, seg.headwind,
                                         physicsParams(params)))} })

RECURSIVE secondPass(_, _, _, _, _, _)
secondPass(heap, results, i, wBalance, minWBalance, params) ==
    IF i > Len(results) THEN [heap |-> heap, minWBalance |-> minWBalance]
    ELSE
    The({ secondPass(Put(heap, results[i], step.seg), results, i + 1,
                     step.wBalance, Min(minWBalance, step.wBalance), params) :
          step \in {secondPassStep(heap[results[i]], wBalance, params)} })

\* Math.pow(power, 3) in place of the fourth power
pow4Cubed(power) ==
    LET p == FDiv(power, Num(100, 1))
    IN  FMul(FMul(p, p), p)

\* Math.pow(power, 4), carried in units of (100 W)^4
pow4(power) ==
    LET p == FDiv(power, Num(100, 1))
    IN  FMul(FMul(p, p), FMul(p, p))

\* Math.pow(x, 0.25) for x in (100 W)^4, in watts
pow025(x) == IF x = NaN THEN NaN ELSE FMul(FSqrt(FSqrt(x)), Num(100, 1))

RECURSIVE thirdPass(_, _, _, _, _, _, _)
thirdPass(heap, results, i, totalTime, powerSum, power4Sum, params) ==
    IF i > Len(results)
    THEN [heap |-> heap, totalTime |-> totalTime, powerSum |-> powerSum,
          power4Sum |-> power4Sum]
    ELSE
    The({
    LET time == FDiv(seg.distance, speed)
    IN  thirdPass(Put(heap, results[i], SetField(SetField(seg, "speed", speed), "time", time)),
                  results, i + 1,
                  totalTime + time,
                  powerSum + FMul(seg.optimizedPower, time),
                  power4Sum + FMul(pow4(seg.optimizedPower), time),
                  params)
    : seg \in {heap[results[i]]},
      speed \in {LET o == heap[results[i]]
                 IN  speedAtPower(o.optimizedPower, o.gradient, o.headwind,
                                  physicsParams(params))} })

\* The array results after the first pass over n segments
RECURSIVE resultRefs(_, _)
resultRefs(i, n) ==
    IF i = 0 THEN <<>> ELSE Append(resultRefs(i - 1, n), ResultRef(i, n))

\* The metrics object optimize returns
metricsOf(totalTime, powerSum, power4Sum, minWBalance, totalDistance, params) ==
    LET avgPower == JsDiv(powerSum, totalTime)
        normPower == pow025(JsDiv(power4Sum, totalTime))
        intensityFactor == JsDiv(normPower, params.ftp)
        hours == JsDiv(totalTime, Num(3600, 1))
        tss == JsMul(JsMul(JsMul(hours, intensityFactor), intensityFactor), Num(100, 1))
        avgSpeed == JsDiv(JsDiv(totalDistance, Num(1000, 1)), hours)
    IN  [totalTime |-> totalTime,
         avgPower |-> avgPower,
         normPower |-> normPower,
         intensityFactor |-> intensityFactor,
         tss |-> tss,
         avgSpeed |-> avgSpeed,
         minWBalance |-> minWBalance,
         wprimePercent |-> FMul(FDiv(minWBalance, params.wprime), Num(100, 1))]

\* segments[segments.length - 1]?.cumulativeDistance || 0
totalDistanceOf(heap, segRefs) ==
    IF Len(segRefs) > 0 THEN heap[segRefs[Len(segRefs)]].cumulativeDistance ELSE 0

\* PowerOptimizer.optimize on the array segRefs of objects in heap: the heap
\* after the call, the returned array and the returned metrics.
optimize(heap, segRefs, params) ==
    The({ The({ [heap |-> third.heap,
                 segments |-> results,
                 metrics |-> metricsOf(third.totalTime, third.powerSum, third.power4Sum,
                                       second.minWBalance,
                                       totalDistanceOf(heap, segRefs), params)] :
                third \in {thirdPass(second.heap, results, 1, 0, 0, 0, params)} }) :
          results \in {resultRefs(Len(segRefs), Len(segRefs))},
          second \in {secondPass(firstPass(heap, segRefs, 1, params),
                                 resultRefs(Len(segRefs), Len(segRefs)), 1,
                                 params.wprime, params.wprime, params)} })

\* The array arr as references 1..Len(arr) into a heap holding its objects
HeapOf(arr) == arr

RECURSIVE Iota(_)
Iota(n) == IF n = 0 THEN <<>> ELSE Append(Iota(n - 1), n)

RefsOf(arr) == Iota(Len(arr))

\* The objects an array of references denotes
RECURSIVE DerefUpTo(_, _, _)
DerefUpTo(heap, refs, n) ==
    IF n = 0 THEN <<>> ELSE Append(DerefUpTo(heap, refs, n - 1), heap[refs[n]])

Deref(heap, refs) == DerefUpTo(heap, refs, Len(refs))

\* ------------------------------------------------------------------------
\* State
\* ------------------------------------------------------------------------

VARIABLES
    segments,         \* state.segments: the array of segment objects
    elements,         \* the values of the input elements getParams reads
    currentRideMode,  \* currentRideMode
    uploads,          \* files whose handleFileUpload awaits file.text()
    initFetch,        \* whether init still awaits its fetch of the default GPX
    timers,           \* pending setTimeout callbacks of calculate
    lastCall,         \* the core call (or alert) made by the last step
    arg               \* the drawn input of the physics functions

vars == <<segments, elements, currentRideMode, uploads, initFetch, timers, lastCall, arg>>

\* state.route and state.optimizedPower are written by the handlers and never
\* read by them; they are not carried.

NoCall == [fn |-> "none"]

NoArg == [windSpeed |-> 0, windDirection |-> 0, bearing |-> 0, speed |-> 0,
          gradient |-> 0, targetIntensity |-> 0]

\* ------------------------------------------------------------------------
\* Bounds and input sets
\* ------------------------------------------------------------------------

MaxSegs == 3

MaxUploads == 1

MaxTimers == 1

Pt(lat, ele) == [lat |-> lat, lon |-> 0, ele |-> Num(ele, 1)]

\* GPX contents as GPXParser.parse returns them: one point; three points within
\* a metre of each other; a climb in 120 m steps.
Files ==
    << <<Pt(0, 10)>>,
       <<Pt(0, 10), Pt(4, 10), Pt(8, 10)>>,
       <<Pt(0, 0), Pt(1080, 8), Pt(2160, 18), Pt(3240, 28)>> >>

FileIds == 1..Len(Files)

FormDefault ==
    [ftp |-> Num(250, 1), riderWeight |-> Num(70, 1), bikeWeight |-> Num(10, 1),
     windSpeed |-> 0, windDirection |-> 0, cda |-> Num(3, 10), crr |-> Num(4, 1000),
     wprime |-> Num(20000, 1), targetIntensity |-> Num(90, 1)]

\* Values a user can have typed into the form before the handlers run
Forms ==
    {FormDefault,
     [FormDefault EXCEPT !.wprime = Num(3000, 1), !.windSpeed = Num(18, 1),
                         !.windDirection = 180]}

\* The ride mode buttons the user clicks
Modes == {"race", "touring"}

RIDE_MODES == [race |-> 0, touring |-> -12, tri703 |-> -6, triFull |-> -10]

getParams(els) ==
    [ftp |-> els.ftp,
     riderWeight |-> els.riderWeight,
     bikeWeight |-> els.bikeWeight,
     totalMass |-> els.riderWeight + els.bikeWeight,
     windSpeed |-> els.windSpeed,
     windDirection |-> els.windDirection,
     cda |-> els.cda,
     crr |-> els.crr,
     wprime |-> els.wprime,
     targetIntensity |-> els.targetIntensity]

\* ------------------------------------------------------------------------
\* Calls of the core as the handlers make them
\* ------------------------------------------------------------------------

\* PowerOptimizer.optimize(arr, params) with arr an array of objects: what the
\* call returned and the objects of arr after it.
callOptimize(arr, params) ==
    The({ [fn |-> "optimize",
           outcome |-> "returned",
           params |-> params,
           input |-> arr,
           inputAfter |-> Deref(r.heap, RefsOf(arr)),
           result |-> Deref(r.heap, r.segments),
           metrics |-> r.metrics] :
          r \in {optimize(HeapOf(arr), RefsOf(arr), params)} })

\* rawSegments = processRoute(points); smoothSegments(rawSegments)
callProcessRoute(points) ==
    The({ [fn |-> "processRoute",
           outcome |-> "returned",
           points |-> points,
           raw |-> raw,
           smoothed |-> smoothSegments(raw, SEGMENT_LENGTH)] :
          raw \in {processRoute(points)} })

\* Math.round
FRound(x) == ((x + Scale \div 2) \div Scale) * Scale

\* The slider value autoRecommendIntensity sets from the test result
recommendedIntensity(totalTime, mode) ==
    LET estimatedHours == FDiv(totalTime, Num(3600, 1))
        baseIntensity ==
            IF estimatedHours <= Num(1, 1) THEN Num(95, 1)
            ELSE IF estimatedHours <= Num(2, 1)
                THEN Num(95, 1) - FMul(estimatedHours - Num(1, 1), Num(10, 1))
            ELSE IF estimatedHours <= Num(3, 1)
                THEN Num(85, 1) - FMul(estimatedHours - Num(2, 1), Num(7, 1))
            ELSE IF estimatedHours <= Num(4, 1)
                THEN Num(78, 1) - FMul(estimatedHours - Num(3, 1), Num(6, 1))
            ELSE Max(Num(65, 1), Num(72, 1) - FMul(estimatedHours - Num(4, 1), Num(3, 1)))
        modeModifier == Num(RIDE_MODES[mode], 1)
    IN  Max(Num(60, 1), Min(Num(100, 1), FRound(baseIntensity + modeModifier)))

\* ------------------------------------------------------------------------
\* UI Event Handlers
\* ------------------------------------------------------------------------

\* The body of handleFileUpload and of init after the points are parsed
LoadPoints(points) ==
    \E call \in {callProcessRoute(points)} :
        /\ segments' = call.smoothed
        /\ lastCall' = call

\* init: the fetch of the default GPX answers with some content
InitFetched(f) ==
    /\ initFetch = "pending"
    /\ initFetch' = "done"
    /\ LoadPoints(Files[f])
    /\ UNCHANGED <<elements, currentRideMode, uploads, timers, arg>>

\* init: the response is not ok, or fetch throws
InitFailed ==
    /\ initFetch = "pending"
    /\ initFetch' = "done"
    /\ lastCall' = NoCall
    /\ UNCHANGED <<segments, elements, currentRideMode, uploads, timers, arg>>

\* handleFileUpload up to its await
FileChosen(f) ==
    /\ f \notin uploads
    /\ Cardinality(uploads) < MaxUploads
    /\ uploads' = uploads \cup {f}
    /\ lastCall' = NoCall
    /\ UNCHANGED <<segments, elements, currentRideMode, initFetch, timers, arg>>

\* handleFileUpload after its await
FileRead(f) ==
    /\ f \in uploads
    /\ uploads' = uploads \ {f}
    /\ IF Len(Files[f]) < 2
       THEN /\ lastCall' = [fn |-> "alert"]
            /\ UNCHANGED segments
       ELSE LoadPoints(Files[f])
    /\ UNCHANGED <<elements, currentRideMode, initFetch, timers, arg>>

\* calculate: the click handler
Calculate ==
    /\ IF Len(segments) = 0
       THEN /\ lastCall' = [fn |-> "alert"]
            /\ UNCHANGED timers
       ELSE /\ timers < MaxTimers
            /\ timers' = timers + 1
            /\ lastCall' = NoCall
    /\ UNCHANGED <<segments, elements, currentRideMode, uploads, initFetch, arg>>

\* calculate: the setTimeout callback
TimerFired ==
    /\ timers > 0
    /\ timers' = timers - 1
    /\ \E call \in {callOptimize(segments, getParams(elements))} :
           /\ lastCall' = call
           /\ segments' = call.inputAfter
    /\ UNCHANGED <<elements, currentRideMode, uploads, initFetch, arg>>

\* The body of autoRecommendIntensity with ride mode mode
Recommend(mode) ==
    IF Len(segments) = 0
    THEN /\ lastCall' = [fn |-> "alert"]
         /\ UNCHANGED <<segments, elements>>
    ELSE \E call \in {callOptimize(segments, [getParams(elements) EXCEPT
                                                     !.targetIntensity = Num(100, 1)])} :
             /\ lastCall' = call
             /\ segments' = call.inputAfter
             /\ elements' = [elements EXCEPT !.targetIntensity =
                                recommendedIntensity(call.metrics.totalTime, mode)]

autoRecommendIntensity ==
    /\ Recommend(currentRideMode)
    /\ UNCHANGED <<currentRideMode, uploads, initFetch, timers, arg>>

selectRideMode(mode) ==
    /\ currentRideMode' = mode
    /\ IF Len(segments) > 0
       THEN Recommend(mode)
       ELSE /\ lastCall' = NoCall
            /\ UNCHANGED <<segments, elements>>
    /\ UNCHANGED <<uploads, initFetch, timers, arg>>

Init ==
    /\ segments = <<>>
    /\ elements \in Forms
    /\ currentRideMode = "race"
    /\ uploads = {}
    /\ initFetch = "pending"
    /\ timers = 0
    /\ lastCall = NoCall
    /\ arg = NoArg

Next ==
    \/ \E f \in FileIds : InitFetched(f)
    \/ InitFailed
    \/ \E f \in FileIds : FileChosen(f)
    \/ \E f \in FileIds : FileRead(f)
    \/ Calculate
    \/ TimerFired
    \/ autoRecommendIntensity
    \/ \E mode \in Modes : selectRideMode(mode)

Spec == Init /\ [][Next]_vars

\* ------------------------------------------------------------------------
\* PowerOptimizer.optimize on drawn routes and parameters
\* ------------------------------------------------------------------------

\* Gradients of the drawn segments: a steep descent, flat, climbs just above
\* 2% and at 8%
Gradients == {-500, 30, 250, 800}

\* A route of 120 m segments heading north with the gradients gs
RECURSIVE RouteUpTo(_, _)
RouteUpTo(gs, n) ==
    IF n = 0 THEN <<>>
    ELSE Append(RouteUpTo(gs, n - 1),
                [distance |-> Num(120, 1),
                 cumulativeDistance |-> n * Num(120, 1),
                 elevation |-> 0,
                 gradient |-> gs[n],
                 bearing |-> 0])

Routes == {RouteUpTo(gs, Len(gs)) : gs \in UNION {[1..n -> Gradients] : n \in 0..MaxSegs}}

\* Form contents: target intensity, W' and wind (km/h, from north or south)
OptForms ==
    {[FormDefault EXCEPT !.targetIntensity = Num(f[1], 1), !.wprime = Num(f[2], 1),
                         !.windSpeed = Num(f[3], 1), !.windDirection = f[4]] :
     f \in {<<90, 20000, 0, 0>>, <<90, 2000, 0, 0>>, <<90, 3000, 18, 0>>,
            <<100, 3000, 18, 0>>, <<100, 20000, 18, 180>>, <<60, 3000, 18, 180>>}}

InitOptimize ==
    /\ segments \in Routes
    /\ elements \in OptForms
    /\ currentRideMode = "race"
    /\ uploads = {}
    /\ initFetch = "done"
    /\ timers = 0
    /\ lastCall = NoCall
    /\ arg = NoArg

\* PowerOptimizer.optimize(state.segments, getParams())
CallOptimize ==
    /\ \E call \in {callOptimize(segments, getParams(elements))} :
           /\ lastCall' = call
           /\ segments' = call.inputAfter
    /\ UNCHANGED <<elements, currentRideMode, uploads, initFetch, timers, arg>>

NextOptimize == CallOptimize

SpecOptimize == InitOptimize /\ [][NextOptimize]_vars

\* ------------------------------------------------------------------------
\* The physics functions and one first-pass iteration on drawn inputs
\* ------------------------------------------------------------------------

Args ==
    [windSpeed : {0, Num(5, 1)},
     windDirection : {0, 90, 180, 270},
     bearing : {0, 90, 180, 270},
     speed : {Num(3, 1), Num(10, 1)},
     gradient : {-500, -100, 0, 120, 210, 250, 800},
     targetIntensity : {Num(60, 1), Num(90, 1), Num(100, 1)}]

InitPhysics ==
    /\ segments = <<>>
    /\ elements = FormDefault
    /\ currentRideMode = "race"
    /\ uploads = {}
    /\ initFetch = "done"
    /\ timers = 0
    /\ lastCall = NoCall
    /\ arg \in Args

\* PhysicsEngine.calculateHeadwind(windSpeed, windDirection, bearing)
CallCalculateHeadwind ==
    /\ lastCall = NoCall
    /\ lastCall' = [fn |-> "calculateHeadwind",
                    windSpeed |-> arg.windSpeed,
                    windDirection |-> arg.windDirection,
                    bearing |-> arg.bearing,
                    result |-> calculateHeadwind(arg.windSpeed, arg.windDirection,
                                                 arg.bearing)]
    /\ UNCHANGED <<segments, elements, currentRideMode, uploads, initFetch, timers, arg>>

\* PhysicsEngine.powerRequired at the headwind value of the drawn wind:
\* P_total and the returned value
CallPowerRequired ==
    /\ lastCall = NoCall
    /\ \E headwind \in {calculateHeadwind(arg.windSpeed, arg.windDirection, arg.bearing)} :
           lastCall' = [fn |-> "powerRequired",
                        speed |-> arg.speed,
                        gradient |-> arg.gradient,
                        headwind |-> headwind,
                        P_total |-> powerTotal(arg.speed, arg.gradient, headwind,
                                               physicsParams(getParams(elements))),
                        result |-> powerRequired(arg.speed, arg.gradient, headwind,
                                                 physicsParams(getParams(elements)))]
    /\ UNCHANGED <<segments, elements, currentRideMode, uploads, initFetch, timers, arg>>

\* The parameters of the drawn wind and target intensity
argParams ==
    [getParams(elements) EXCEPT !.windSpeed = FMul(arg.windSpeed, Num(36, 10)),
                                !.windDirection = arg.windDirection,
                                !.targetIntensity = arg.targetIntensity]

\* One iteration of the first pass of optimize on a segment of the drawn
\* gradient and bearing
CallFirstPass ==
    /\ lastCall = NoCall
    /\ \E seg \in {[gradient |-> arg.gradient, bearing |-> arg.bearing]} :
           lastCall' = [fn |-> "firstPass",
                        seg |-> seg,
                        params |-> argParams,
                        headwind |-> segmentHeadwind(seg, argParams),
                        gradientTarget |-> gradientTarget(seg.gradient, argParams),
                        optimizedPower |-> firstPassTarget(seg, argParams)]
    /\ UNCHANGED <<segments, elements, currentRideMode, uploads, initFetch, timers, arg>>

NextPhysics ==
    \/ CallCalculateHeadwind
    \/ CallPowerRequired
    \/ CallFirstPass

SpecPhysics == InitPhysics /\ [][NextPhysics]_vars

\* ------------------------------------------------------------------------
\* Properties of PowerOptimizer.optimize
\* ------------------------------------------------------------------------

\* What a call of optimize shows of its i-th segment: the target the first
\* pass wrote, the reserve before the segment, the time the second pass took
\* for it, and the final power
TargetOf(call, i) == firstPassTarget(call.input[i], call.params)

BeforeOf(call, i) == IF i = 1 THEN call.params.wprime ELSE call.result[i - 1].wBalance

AfterOf(call, i) == call.result[i].wBalance

FinalOf(call, i) == call.result[i].optimizedPower

TimeAtTargetOf(call, i) ==
    FDiv(call.input[i].distance,
         speedAtPower(TargetOf(call, i), call.input[i].gradient, call.result[i].headwind,
                      physicsParams(call.params)))

BaseOf(call) == FMul(call.params.ftp, FDiv(call.params.targetIntensity, Num(100, 1)))

FloorOf(call) == FMul(call.params.wprime, Num(15, 100))

Optimized == lastCall.fn = "optimize" /\ Len(lastCall.input) > 0

\* Whether the second pass replaced the target of the i-th segment
OverriddenIn(call, i) == FinalOf(call, i) # TargetOf(call, i)

\* C1: after optimize on a non-empty route every recorded wBalance lies in
\* [0.15 * wPrime, wPrime], and so does metrics.minWBalance, so that
\* wprimePercent lies in [15, 100].
C1_WBalanceWithinBounds ==
    Optimized =>
        /\ \A i \in 1..Len(lastCall.result) :
               /\ FloorOf(lastCall) <= AfterOf(lastCall, i)
               /\ AfterOf(lastCall, i) <= lastCall.params.wprime
        /\ FloorOf(lastCall) <= lastCall.metrics.minWBalance
        /\ lastCall.metrics.minWBalance <= lastCall.params.wprime
        /\ Num(15, 1) <= lastCall.metrics.wprimePercent
        /\ lastCall.metrics.wprimePercent <= Num(100, 1)

\* A route on which the reserve is spent, a segment is overridden for lack of
\* reserve, and the reserve recovers afterwards
C1_Witness ==
    /\ Optimized
    /\ \E i, j, k \in 1..Len(lastCall.result) :
           /\ i < j /\ j < k
           /\ AfterOf(lastCall, i) < lastCall.params.wprime
           /\ OverriddenIn(lastCall, j)
           /\ AfterOf(lastCall, k) > AfterOf(lastCall, j)

\* C4: optimize leaves every input segment with exactly the fields and values
\* it had, returns as many segments as it was given, in the same order with
\* the input's fields unchanged, and a second call on the same segments with
\* the same params returns an equal result.
C4_InputUnchanged ==
    [][lastCall'.fn = "optimize" =>
          /\ lastCall'.inputAfter = lastCall'.input
          /\ Len(lastCall'.result) = Len(lastCall'.input)
          /\ \A i \in 1..Len(lastCall'.input) :
                 \A f \in DOMAIN lastCall'.input[i] :
                     lastCall'.result[i][f] = lastCall'.input[i][f]
          /\ (lastCall.fn = "optimize" /\ lastCall.params = lastCall'.params
              /\ lastCall.input = lastCall'.input)
                 => /\ lastCall'.result = lastCall.result
                    /\ lastCall'.metrics = lastCall.metrics]_vars

\* A call that overrode a segment in the second pass and returned the added
\* fields on the copies only
C4_Witness ==
    /\ Optimized
    /\ Len(lastCall.input) >= 2
    /\ segments = lastCall.input
    /\ \E i \in 1..Len(lastCall.result) :
           /\ OverriddenIn(lastCall, i)
           /\ {"headwind", "optimizedPower", "wBalance", "speed", "time"}
                  \subseteq DOMAIN lastCall.result[i]
           /\ "optimizedPower" \notin DOMAIN lastCall.inputAfter[i]

C6_JudgedOnFinalPower ==
    Optimized =>
        \A i \in 1..Len(lastCall.result) :
            /\ FinalOf(lastCall, i) < lastCall.params.ftp =>
                   AfterOf(lastCall, i) =
                       Min(lastCall.params.wprime,
                           BeforeOf(lastCall, i)
                               + FMul(FMul(lastCall.params.ftp - FinalOf(lastCall, i),
                                           lastCall.result[i].time), Num(30, 100)))
            /\ FinalOf(lastCall, i) > lastCall.params.ftp =>
                   AfterOf(lastCall, i) =
                       BeforeOf(lastCall, i)
                           - FMul(FinalOf(lastCall, i) - lastCall.params.ftp,
                                  lastCall.result[i].time)

\* C6 as amended: judged on the first-pass target of each segment, a target
\* at or below ftp recovers min(wPrime, before + (ftp - target) * time *
\* 0.30), a target above ftp that is kept depletes by (target - ftp) * time,
\* with time taken at the target, and an overridden segment leaves the
\* reserve as it was.
C6_JudgedOnTarget ==
    Optimized =>
        \A i \in 1..Len(lastCall.result) :
            IF TargetOf(lastCall, i) <= lastCall.params.ftp
            THEN AfterOf(lastCall, i) =
                     Min(lastCall.params.wprime,
                         BeforeOf(lastCall, i)
                             + FMul(FMul(lastCall.params.ftp - TargetOf(lastCall, i),
                                         TimeAtTargetOf(lastCall, i)), Num(30, 100)))
            ELSE IF OverriddenIn(lastCall, i)
            THEN AfterOf(lastCall, i) = BeforeOf(lastCall, i)
            ELSE AfterOf(lastCall, i) =
                     BeforeOf(lastCall, i)
                         - FMul(TargetOf(lastCall, i) - lastCall.params.ftp,
                                TimeAtTargetOf(lastCall, i))

\* A call with a segment overridden to a power below ftp, and a segment whose
\* target was below ftp that recovered reserve
C6_Witness ==
    /\ Optimized
    /\ \E i, j \in 1..Len(lastCall.result) :
           /\ OverriddenIn(lastCall, i)
           /\ FinalOf(lastCall, i) < lastCall.params.ftp
           /\ TargetOf(lastCall, j) < lastCall.params.ftp
           /\ AfterOf(lastCall, j) > BeforeOf(lastCall, j)

C2_OptimizeNeverOnEmpty ==
    lastCall.fn = "optimize" => Len(lastCall.input) > 0

\* C3: processRoute given fewer than 2 points and optimize given no segments
\* end in an InputTooShort rejection instead of returning.
C3_RejectsTooShort ==
    /\ (lastCall.fn = "processRoute" /\ Len(lastCall.points) < 2)
           => lastCall.outcome = "InputTooShort"
    /\ (lastCall.fn = "optimize" /\ Len(lastCall.input) = 0)
           => lastCall.outcome = "InputTooShort"

\* ------------------------------------------------------------------------
\* Properties of the physics functions and of the first pass
\* ------------------------------------------------------------------------

\* C7: for windSpeed > 0 calculateHeadwind returns -windSpeed when the
\* bearing equals windDirection, +windSpeed when the bearing equals
\* windDirection + 180, and 0 for a bearing at 90 degrees to windDirection.
C7_HeadwindSignConvention ==
    (lastCall.fn = "calculateHeadwind" /\ lastCall.windSpeed > 0) =>
        /\ lastCall.bearing = lastCall.windDirection
               => lastCall.result = -lastCall.windSpeed
        /\ lastCall.bearing = (lastCall.windDirection + 180) % 360
               => lastCall.result = lastCall.windSpeed
        /\ lastCall.bearing \in {(lastCall.windDirection + 90) % 360,
                                 (lastCall.windDirection + 270) % 360}
               => lastCall.result = 0

\* C8: for speed > 0, when the first pass raises a target for the headwind
\* value, P_total at that value is at least P_total at zero wind for the same
\* speed and gradient, and when it lowers the target, P_total is at most the
\* zero-wind value.
C8_WindAdjustmentAgreesWithPhysics ==
    (lastCall.fn = "powerRequired" /\ lastCall.speed > 0) =>
        /\ windAdjusted(Num(200, 1), lastCall.headwind) > Num(200, 1)
               => lastCall.P_total >= powerTotal(lastCall.speed, lastCall.gradient, 0,
                                                 physicsParams(getParams(elements)))
        /\ windAdjusted(Num(200, 1), lastCall.headwind) < Num(200, 1)
               => lastCall.P_total <= powerTotal(lastCall.speed, lastCall.gradient, 0,
                                                 physicsParams(getParams(elements)))

\* C10: for a gradient above 2% and 0 < targetIntensity <= 100 the target the
\* first pass writes, after the wind adjustment and the clamp, is at least
\* basePower, and greater than basePower for targetIntensity in (65, 100).
C10_ClimbNeverBelowBasePower ==
    (/\ lastCall.fn = "firstPass"
     /\ FMul(lastCall.seg.gradient, Num(100, 1)) > Num(2, 1)
     /\ lastCall.params.targetIntensity > 0
     /\ lastCall.params.targetIntensity <= Num(100, 1)) =>
        /\ lastCall.optimizedPower >= BaseOf(lastCall)
        /\ (lastCall.params.targetIntensity > Num(65, 1)
            /\ lastCall.params.targetIntensity < Num(100, 1))
               => lastCall.optimizedPower > BaseOf(lastCall)

\* ------------------------------------------------------------------------
\* PowerOptimizer.optimize on flat routes without wind
\* ------------------------------------------------------------------------

\* Gradients of 0%, 0.3% and 0.5%
FlatGradients == {0, 30, 50}

FlatRoutes ==
    {RouteUpTo(gs, Len(gs)) : gs \in UNION {[1..n -> FlatGradients] : n \in 1..MaxSegs}}

\* Form contents without wind speed: target intensity, W' and wind direction
FlatForms ==
    {[FormDefault EXCEPT !.targetIntensity = Num(f[1], 1), !.wprime = Num(f[2], 1),
                         !.windDirection = f[3]] :
     f \in {60, 90, 100} \X {3000, 20000} \X {0, 90}}

InitFlat ==
    /\ segments \in FlatRoutes
    /\ elements \in FlatForms
    /\ currentRideMode = "race"
    /\ uploads = {}
    /\ initFetch = "done"
    /\ timers = 0
    /\ lastCall = NoCall
    /\ arg = NoArg

SpecFlat == InitFlat /\ [][NextOptimize]_vars

\* Whether Numbers x and y differ by less than tol
Near(x, y, tol) == x # NaN /\ y # NaN /\ Abs(x - y) < tol

\* C11: on a route of gradients in [0%, 0.5%] without wind and with 0 <
\* targetIntensity <= 100 every final power is basePower, no segment is
\* overridden, every wBalance is wPrime, avgPower and normPower are
\* basePower (to 0.1 W) and intensityFactor is targetIntensity / 100 (to
\* 0.001).
C11_FlatRouteAtBasePower ==
    Optimized =>
        /\ \A i \in 1..Len(lastCall.result) :
               /\ FinalOf(lastCall, i) = BaseOf(lastCall)
               /\ ~OverriddenIn(lastCall, i)
               /\ AfterOf(lastCall, i) = lastCall.params.wprime
        /\ lastCall.metrics.minWBalance = lastCall.params.wprime
        /\ Near(lastCall.metrics.avgPower, BaseOf(lastCall), Num(1, 10))
        /\ Near(lastCall.metrics.normPower, BaseOf(lastCall), Num(1, 10))
        /\ Near(lastCall.metrics.intensityFactor,
                FDiv(lastCall.params.targetIntensity, Num(100, 1)), Num(1, 1000))

\* The spec's case in small: several flat segments at ftp 250 and
\* targetIntensity 100 give 250 W on each and intensityFactor 1.00
C11_Witness ==
    /\ Optimized
    /\ Len(lastCall.result) >= 2
    /\ lastCall.params.targetIntensity = Num(100, 1)
    /\ \A i \in 1..Len(lastCall.result) : FinalOf(lastCall, i) = Num(250, 1)
    /\ \E i \in 1..Len(lastCall.result) : lastCall.input[i].gradient = 50
    /\ Near(lastCall.metrics.intensityFactor, Num(1, 1), Num(1, 1000))

\* ------------------------------------------------------------------------
\* The segmenter on drawn tracks
\* ------------------------------------------------------------------------

MaxPts == 5

\* Steps between consecutive track points: micro-degrees of latitude
\* northward (4 is under a metre, 540 about 60 m, 1080 about 120 m) and
\* metres of elevation
StepKinds == {<<4, 0>>, <<540, 0>>, <<540, 3>>, <<1080, 0>>, <<1080, 6>>}

\* The track of the steps taken from a first point at 10 m
RECURSIVE TrackFrom(_, _)
TrackFrom(steps, k) ==
    IF k = 0 THEN <<Pt(0, 10)>>
    ELSE The({ Append(prev, [lat |-> prev[k].lat + steps[k][1],
                             lon |-> 0,
                             ele |-> prev[k].ele + Num(steps[k][2], 1)]) :
               prev \in {TrackFrom(steps, k - 1)} })

Tracks ==
    {<<>>} \cup {TrackFrom(st, Len(st)) :
                 st \in UNION {[1..n -> StepKinds] : n \in 0..(MaxPts - 1)}}

TargetLengths == {Num(50, 1), SEGMENT_LENGTH}

InitSegmenter ==
    /\ segments = <<>>
    /\ elements = FormDefault
    /\ currentRideMode = "race"
    /\ uploads = {}
    /\ initFetch = "done"
    /\ timers = 0
    /\ lastCall = NoCall
    /\ arg \in [points : Tracks, targetLength : TargetLengths]

\* GPXParser.processRoute(points)
CallProcessRoute ==
    /\ lastCall = NoCall
    /\ lastCall' = [fn |-> "processRoute",
                    points |-> arg.points,
                    result |-> processRoute(arg.points)]
    /\ UNCHANGED <<segments, elements, currentRideMode, uploads, initFetch, timers, arg>>

\* GPXParser.smoothSegments(raw, targetLength) on the raw segments of the track
CallSmoothSegments ==
    /\ lastCall = NoCall
    /\ \E raw \in {processRoute(arg.points)} :
           lastCall' = [fn |-> "smoothSegments",
                        points |-> arg.points,
                        raw |-> raw,
                        targetLength |-> arg.targetLength,
                        result |-> smoothSegments(raw, arg.targetLength)]
    /\ UNCHANGED <<segments, elements, currentRideMode, uploads, initFetch, timers, arg>>

NextSegmenter ==
    \/ CallProcessRoute
    \/ CallSmoothSegments

SpecSegmenter == InitSegmenter /\ [][NextSegmenter]_vars

\* The sum of distance over segs[a..b]
RECURSIVE SumDistance(_, _, _)
SumDistance(segs, a, b) ==
    IF a > b THEN 0 ELSE segs[b].distance + SumDistance(segs, a, b - 1)

\* Whether cuts gives, for each coalesced segment, the index of the last raw
\* segment of its span
IsPartition(cuts, raw, out) ==
    /\ cuts[Len(out)] = Len(raw)
    /\ \A k \in 1..Len(out) :
           LET first == IF k = 1 THEN 1 ELSE cuts[k - 1] + 1
           IN  /\ first <= cuts[k]
               /\ out[k].distance = SumDistance(raw, first, cuts[k])
               /\ out[k].endLat = raw[cuts[k]].endLat

Smoothed == lastCall.fn = "smoothSegments" /\ Len(lastCall.raw) > 0

\* C12: smoothSegments on a non-empty raw sequence puts every raw segment
\* into exactly one coalesced segment in route order, keeps the sum of
\* distance, gives every coalesced segment but the last at least
\* targetLength, and emits the final partial accumulation.
C12_SmoothingConservesDistance ==
    Smoothed =>
        /\ Len(lastCall.result) >= 1
        /\ \E cuts \in [1..Len(lastCall.result) -> 1..Len(lastCall.raw)] :
               IsPartition(cuts, lastCall.raw, lastCall.result)
        /\ SumDistance(lastCall.result, 1, Len(lastCall.result))
               = SumDistance(lastCall.raw, 1, Len(lastCall.raw))
        /\ \A k \in 1..(Len(lastCall.result) - 1) :
               lastCall.result[k].distance >= lastCall.targetLength

\* A track coalesced into two full segments and a final one shorter than the
\* target length
C12_Witness ==
    /\ Smoothed
    /\ Len(lastCall.raw) > Len(lastCall.result)
    /\ Len(lastCall.result) >= 2
    /\ lastCall.result[Len(lastCall.result)].distance < lastCall.targetLength

\* Whether cumulativeDistance is the running sum of distance along segs,
\* with every distance at least 1 m
IsRunningSum(segs) ==
    /\ \A k \in 1..Len(segs) :
           /\ segs[k].cumulativeDistance = SumDistance(segs, 1, k)
           /\ segs[k].distance >= Num(1, 1)
    /\ \A k \in 1..(Len(segs) - 1) :
           segs[k].cumulativeDistance <= segs[k + 1].cumulativeDistance
    /\ Len(segs) > 0 => totalDistanceOf(HeapOf(segs), RefsOf(segs)) = SumDistance(segs, 1, Len(segs))

\* C13: in the output of processRoute and in the output of smoothSegments
\* applied to it, cumulativeDistance is the running sum of distance, it never
\* decreases, every distance is at least 1 m, and the last cumulativeDistance
\* (the total distance of optimize) is the sum of all distances.
C13_CumulativeDistanceIsRunningSum ==
    lastCall.fn \in {"processRoute", "smoothSegments"} => IsRunningSum(lastCall.result)

\* A track with a pair of points under 1 m apart, coalesced into two segments
C13_Witness ==
    /\ lastCall.fn = "smoothSegments"
    /\ Len(lastCall.result) = 2
    /\ Len(lastCall.raw) = 3
    /\ Len(lastCall.points) = 5
    /\ lastCall.result[2].cumulativeDistance > lastCall.result[2].distance

\* Whether every segment of the last result has the same final power
ConstantPower ==
    \A i, j \in 1..Len(lastCall.result) : FinalOf(lastCall, i) = FinalOf(lastCall, j)

\* C14: on a non-empty route normalizedPower is at least avgPower, and the
\* two are equal exactly when every segment's final optimizedPower is the
\* same. The metrics carry four decimals and the fourth root two of them, so
\* equality is agreement within 0.03 W.
C14_NormalizedAtLeastAverage ==
    Optimized =>
        /\ lastCall.metrics.normPower # NaN
        /\ lastCall.metrics.avgPower # NaN
        /\ lastCall.metrics.normPower >= lastCall.metrics.avgPower - Num(3, 100)
        /\ ConstantPower <=>
               Near(lastCall.metrics.normPower, lastCall.metrics.avgPower, Num(3, 100))

\* A route ridden at different powers whose normalizedPower exceeds avgPower
\* by more than a watt
C14_Witness ==
    /\ Optimized
    /\ ~ConstantPower
    /\ lastCall.metrics.normPower > lastCall.metrics.avgPower + Num(1, 1)

\* A route of several segments ridden at one power
C14_WitnessConstant ==
    /\ Optimized
    /\ Len(lastCall.result) >= 2
    /\ ConstantPower

\* ------------------------------------------------------------------------
\* The power/speed inversion on drawn inputs
\* ------------------------------------------------------------------------

InversionArgs ==
    [power : {Num(1, 10), Num(50, 1), Num(200, 1), Num(400, 1), Num(6000, 1)},
     gradient : {-2500, -1000, 0, 100, 500, 2500},
     headwind : {Num(h, 1) : h \in {-15, -5, 0, 5, 15}},
     speed1 : {Num(3, 1), Num(5, 1)},
     speed2 : {Num(5, 1), Num(10, 1), Num(20, 1)}]

InitInversion ==
    /\ segments = <<>>
    /\ elements = FormDefault
    /\ currentRideMode = "race"
    /\ uploads = {}
    /\ initFetch = "done"
    /\ timers = 0
    /\ lastCall = NoCall
    /\ arg \in InversionArgs

\* PhysicsEngine.powerRequired at two speeds, all else equal
CallPowerRequiredTwice ==
    /\ lastCall = NoCall
    /\ \E params \in {physicsParams(getParams(elements))} :
           lastCall' = [fn |-> "powerRequired",
                        gradient |-> arg.gradient,
                        headwind |-> arg.headwind,
                        params |-> params,
                        speeds |-> <<arg.speed1, arg.speed2>>,
                        results |-> <<powerRequired(arg.speed1, arg.gradient,
                                                    arg.headwind, params),
                                      powerRequired(arg.speed2, arg.gradient,
                                                    arg.headwind, params)>>]
    /\ UNCHANGED <<segments, elements, currentRideMode, uploads, initFetch, timers, arg>>

\* PhysicsEngine.speedAtPower: the initial guess, the speed returned, the
\* loop iterations started, and powerRequired at the speed returned
CallSpeedAtPower ==
    /\ lastCall = NoCall
    /\ \E params \in {physicsParams(getParams(elements))} :
       \E run \in {speedAtPowerRun(arg.power, arg.gradient, arg.headwind, params)} :
           lastCall' = [fn |-> "speedAtPower",
                        power |-> arg.power,
                        gradient |-> arg.gradient,
                        headwind |-> arg.headwind,
                        params |-> params,
                        guess |-> initialGuess(arg.power, params),
                        result |-> run[1],
                        iterations |-> run[2],
                        powerAtResult |-> powerRequired(run[1], arg.gradient,
                                                        arg.headwind, params)]
    /\ UNCHANGED <<segments, elements, currentRideMode, uploads, initFetch, timers, arg>>

NextInversion ==
    \/ CallPowerRequiredTwice
    \/ CallSpeedAtPower

SpecInversion == InitInversion /\ [][NextInversion]_vars

\* C15: for a gradient of at least 0, a headwind value in [-15, 15] m/s and
\* positive totalMass, cda and crr, powerRequired never decreases as the
\* speed grows: 0 < s1 <= s2 implies powerRequired(s1) <= powerRequired(s2).
C15_PowerRequiredMonotoneInSpeed ==
    (/\ lastCall.fn = "powerRequired"
     /\ lastCall.gradient >= 0
     /\ lastCall.headwind >= Num(0 - 15, 1)
     /\ lastCall.headwind <= Num(15, 1)
     /\ lastCall.params.totalMass > 0
     /\ lastCall.params.cda > 0
     /\ lastCall.params.crr > 0
     /\ 0 < lastCall.speeds[1]
     /\ lastCall.speeds[1] <= lastCall.speeds[2])
    => lastCall.results[1] <= lastCall.results[2]

\* C16: for a power of at least 50 W, a gradient in [-0.25, 0.25] and a
\* headwind in [-15, 15] m/s, when speedAtPower returns a speed strictly
\* inside (1, 30) m/s, powerRequired at that speed is within 1 W of the
\* power, descents held at the 50 W floor included.
C16_RoundTripWithinOneWatt ==
    (/\ lastCall.fn = "speedAtPower"
     /\ lastCall.power >= Num(50, 1)
     /\ lastCall.gradient >= 0 - 2500
     /\ lastCall.gradient <= 2500
     /\ lastCall.headwind >= Num(0 - 15, 1)
     /\ lastCall.headwind <= Num(15, 1)
     /\ lastCall.result > Num(1, 1)
     /\ lastCall.result < Num(30, 1))
    => Abs(lastCall.powerAtResult - lastCall.power) <= Num(1, 1)

\* C17: for every power above 0 speedAtPower ends within 20 iterations and
\* returns a speed in [1, 30] m/s, also when the loop exits on its first
\* iteration before any update has been clamped.
C17_SpeedAlwaysWithinClamp ==
    (lastCall.fn = "speedAtPower" /\ lastCall.power > 0)
    => /\ lastCall.iterations <= 20
       /\ lastCall.result >= Num(1, 1)
       /\ lastCall.result <= Num(30, 1)

\* The elevation of the track point at latitude lat (the drawn tracks run
\* north, so a latitude names one point)
ElevationAt(points, lat) ==
    (CHOOSE p \in {points[i] : i \in 1..Len(points)} : p.lat = lat).ele

\* The track elevation at the start point of the k-th coalesced span
SpanStartElevation(call, k) ==
    IF k = 1 THEN call.points[1].ele
    ELSE ElevationAt(call.points, call.result[k - 1].endLat)

\* C18: every coalesced segment's gradient is (the distance-weighted average
\* elevation of its span - the track elevation at the span's start point) /
\* the span's distance, the start point being the route's first track point
\* for the first span and the previous span's end point for a later one.
C18_GradientFromSpanStartElevation ==
    Smoothed =>
        \A k \in 1..Len(lastCall.result) :
            lastCall.result[k].gradient
                = FDiv(lastCall.result[k].elevation - SpanStartElevation(lastCall, k),
                       lastCall.result[k].distance)

\* C19 as stated: processRoute returns an empty sequence for 0 or 1 track
\* points, and smoothSegments returns an empty sequence for 0 or 1 raw
\* segments.
C19_EmptyForZeroOrOne ==
    /\ (lastCall.fn = "processRoute" /\ Len(lastCall.points) <= 1)
           => lastCall.result = <<>>
    /\ (lastCall.fn = "smoothSegments" /\ Len(lastCall.raw) <= 1)
           => lastCall.result = <<>>

\* C19: processRoute returns an empty sequence for 0 or 1 track points;
\* smoothSegments returns an empty sequence for 0 raw segments, and for 1 raw
\* segment it returns one coalesced segment of that segment's distance and
\* end point.
C19_EmptyOnlyForNoSegments ==
    /\ (lastCall.fn = "processRoute" /\ Len(lastCall.points) <= 1)
           => lastCall.result = <<>>
    /\ (lastCall.fn = "smoothSegments" /\ Len(lastCall.raw) = 0)
           => lastCall.result = <<>>
    /\ (lastCall.fn = "smoothSegments" /\ Len(lastCall.raw) = 1)
           => /\ Len(lastCall.result) = 1
              /\ lastCall.result[1].distance = lastCall.raw[1].distance
              /\ lastCall.result[1].endLat = lastCall.raw[1].endLat
              /\ lastCall.result[1].cumulativeDistance = lastCall.raw[1].cumulativeDistance

\* One raw segment shorter than the target length, coalesced into one segment
C19_Witness ==
    /\ lastCall.fn = "smoothSegments"
    /\ Len(lastCall.raw) = 1
    /\ lastCall.raw[1].distance < lastCall.targetLength
    /\ Len(lastCall.result) = 1

====
